---- MODULE Spec2Model ----
(***************************************************************************)
(* Model of the docker-compose provider: the compose-file generator        *)
(* (compose_generator.go) and the DockerComposeProvider with its           *)
(* read/write lock and container-identifier cache.                         *)
(*                                                                         *)
(* Text is modelled as the sequence of the chunks handed to                *)
(* strings.Builder.WriteString; a chunk produced by fmt.Sprintf is the     *)
(* tuple of the literal pieces of its format string and of its formatted   *)
(* operands, so the emitted bytes are the concatenation of all pieces.     *)
(* Output captured from a subprocess is a sequence of pieces in which      *)
(* white space is kept as separate pieces, so that strings.TrimSpace is    *)
(* modelled by what it removes.                                            *)
(***************************************************************************)
EXTENDS Integers, Sequences, FiniteSets, Bags, TLC

Nil == "nil"
None == "none"

(***************************************************************************)
(* Bounds of the model.                                                    *)
(***************************************************************************)
\* Longest list of port mappings of a generated service definition.
MaxPorts == 2
\* Largest number of environment variables of a generated service definition.
MaxEnv == 2
\* Number of temporary directory names the file system can hand out.
MaxDirs == 2
\* Number of provider calls in a run of concurrent callers.
MaxCalls == 3
\* Number of provider calls in a run of callers that never overlap.
MaxSeqCalls == 4

(***************************************************************************)
(* Helpers on maps and sequences.                                          *)
(***************************************************************************)
EmptyMap == << >>

\* Every order in which a Go `range` over a map with key set S may visit it.
Perms(S) ==
  { p \in [1..Cardinality(S) -> S] : \A i, j \in 1..Cardinality(S) : p[i] = p[j] => i = j }

RECURSIVE Concat(_)
Concat(seqs) == IF seqs = << >> THEN << >> ELSE Head(seqs) \o Concat(Tail(seqs))

Map(f(_), s) == [i \in 1..Len(s) |-> f(s[i])]

(***************************************************************************)
(* Topology model (dockerwrapper.go).                                      *)
(***************************************************************************)
PortMapping(h, c, proto) == [HostPort |-> h, ContainerPort |-> c, Protocol |-> proto]

VolumeMapping(h, c) == [HostPath |-> h, ContainerPath |-> c]

ResourceLimits(m, c) == [Memory |-> m, CPUShare |-> c]

ServiceConfig(name, tag, ports, env, vols, deps, restart, res) ==
  [ImageName |-> name, ImageTag |-> tag, ExposedPorts |-> ports, Environment |-> env,
   Volumes |-> vols, DependsOn |-> deps, RestartPolicy |-> restart, Resources |-> res]

ComposeConfig(services, network, project, envFile) ==
  [Services |-> services, Network |-> network, ProjectName |-> project, EnvFile |-> envFile]

\* The zero value of ComposeConfig, held by a provider before Initialize.
ZeroConfig == ComposeConfig(EmptyMap, "", "", "")

\* The declared service names of a topology (the keys of config.Services).
ServiceNames(config) == DOMAIN config.Services

(***************************************************************************)
(* generateComposeContent (compose_generator.go).  The two `range` loops   *)
(* over Go maps visit their keys in an order the runtime chooses, so the   *)
(* order of the services and of each service's environment keys are        *)
(* parameters: svcOrder \in Perms(ServiceNames(config)) and                *)
(* envOrder[s] \in Perms(DOMAIN config.Services[s].Environment).           *)
(***************************************************************************)
PortLine(port) ==
  <<"      - \"", ToString(port.HostPort), ":", ToString(port.ContainerPort), "/",
    port.Protocol, "\"\n">>

VolumeLine(volume) == <<"      - ", volume.HostPath, ":", volume.ContainerPath, "\n">>

EnvLine(key, value) == <<"      - ", key, "=", value, "\n">>

DepLine(dep) == <<"      - ", dep, "\n">>

RestartPart(serviceConfig) ==
  IF serviceConfig.RestartPolicy # ""
  THEN << <<"    restart: ", serviceConfig.RestartPolicy, "\n">> >>
  ELSE << >>

PortsPart(serviceConfig) ==
  IF Len(serviceConfig.ExposedPorts) > 0
  THEN << <<"    ports:\n">> >> \o Map(PortLine, serviceConfig.ExposedPorts)
  ELSE << >>

VolumesPart(serviceConfig) ==
  IF Len(serviceConfig.Volumes) > 0
  THEN << <<"    volumes:\n">> >> \o Map(VolumeLine, serviceConfig.Volumes)
  ELSE << >>

EnvironmentPart(serviceConfig, keys) ==
  IF Cardinality(DOMAIN serviceConfig.Environment) > 0
  THEN << <<"    environment:\n">> >>
       \o [i \in 1..Len(keys) |-> EnvLine(keys[i], serviceConfig.Environment[keys[i]])]
  ELSE << >>

DependsPart(serviceConfig) ==
  IF Len(serviceConfig.DependsOn) > 0
  THEN << <<"    depends_on:\n">> >> \o Map(DepLine, serviceConfig.DependsOn)
  ELSE << >>

ResourcesPart(serviceConfig) ==
  IF serviceConfig.Resources.Memory # "" \/ serviceConfig.Resources.CPUShare # ""
  THEN << <<"    deploy:\n">>, <<"      resources:\n">>, <<"        limits:\n">> >>
       \o (IF serviceConfig.Resources.Memory # ""
           THEN << <<"          memory: ", serviceConfig.Resources.Memory, "\n">> >>
           ELSE << >>)
       \o (IF serviceConfig.Resources.CPUShare # ""
           THEN << <<"          cpus: ", serviceConfig.Resources.CPUShare, "\n">> >>
           ELSE << >>)
  ELSE << >>

\* ServiceBlock with the volumes written before the ports.
ServiceBlockVolumesFirst(serviceName, serviceConfig, keys) ==
  << <<"  ", serviceName, ":\n">>,
     <<"    image: ", serviceConfig.ImageName, ":", serviceConfig.ImageTag, "\n">> >>
  \o RestartPart(serviceConfig)
  \o VolumesPart(serviceConfig)
  \o PortsPart(serviceConfig)
  \o EnvironmentPart(serviceConfig, keys)
  \o DependsPart(serviceConfig)
  \o ResourcesPart(serviceConfig)

\* One iteration of the loop over config.Services (lines 44-95).
ServiceBlock(serviceName, serviceConfig, keys) ==
  << <<"  ", serviceName, ":\n">>,
     <<"    image: ", serviceConfig.ImageName, ":", serviceConfig.ImageTag, "\n">> >>
  \o RestartPart(serviceConfig)
  \o PortsPart(serviceConfig)
  \o VolumesPart(serviceConfig)
  \o EnvironmentPart(serviceConfig, keys)
  \o DependsPart(serviceConfig)
  \o ResourcesPart(serviceConfig)

NetworkPart(config) ==
  IF config.Network # ""
  THEN << <<"\nnetworks:\n">>, <<"  ", config.Network, ":\n">>, <<"    driver: bridge\n">> >>
  ELSE << >>

\* The (string, error) pair returned by generateComposeContent.
generateComposeContent(config, svcOrder, envOrder) ==
  [content |->
     << <<"version: \"3.4\"\n\n">>, <<"services:\n">> >>
     \o Concat([i \in 1..Len(svcOrder) |->
                  ServiceBlock(svcOrder[i], config.Services[svcOrder[i]],
                               envOrder[svcOrder[i]])])
     \o NetworkPart(config),
   err |-> Nil]

\* The iteration orders the runtime may choose for a topology.
SvcOrders(config) == Perms(ServiceNames(config))

EnvOrders(config) ==
  { eo \in [ServiceNames(config) -> UNION { Perms(DOMAIN config.Services[s].Environment) :
                                           s \in ServiceNames(config) }] :
      \A s \in ServiceNames(config) : eo[s] \in Perms(DOMAIN config.Services[s].Environment) }

\* Every result a call generateComposeContent(config) can return.
ContentResults(config) ==
  { generateComposeContent(config, so, eo) : so \in SvcOrders(config), eo \in EnvOrders(config) }

(***************************************************************************)
(* The file system under the temporary root, and the staging functions     *)
(* generateComposeFile and CleanupComposeFile (compose_generator.go).      *)
(* A path is the sequence of its components; the file system maps each     *)
(* existing directory to the map from its file names to their contents.    *)
(***************************************************************************)
ComposeFileName == "docker-compose.yml"

\* The names ioutil.TempDir("", "docker-compose-") can hand out.
TempDirs == { <<"tmp", "docker-compose-" \o ToString(i)>> : i \in 1..MaxDirs }

\* filepath.Join(dir, name) and filepath.Dir(path) on component sequences.
Join(dir, name) == Append(dir, name)

Dir(path) == IF Len(path) = 0 THEN << >> ELSE SubSeq(path, 1, Len(path) - 1)

IsPrefix(d, q) == Len(d) <= Len(q) /\ SubSeq(q, 1, Len(d)) = d

\* os.RemoveAll(dir): dir and everything below it is gone; a missing dir is no error.
RemoveAll(files, dir) ==
  [fs |-> [d \in { q \in DOMAIN files : ~IsPrefix(dir, q) } |-> files[d]], err |-> Nil]

ErrTempDir == "failed to create temp directory"
ErrContent == "failed to generate compose content"
ErrWrite == "failed to write compose file"

WithDir(files, d, entries) ==
  [q \in DOMAIN files \cup {d} |-> IF q = d THEN entries ELSE files[q]]

\* What one call generateComposeFile(config) can do to the file system `files` and
\* return: ioutil.TempDir fails or creates a directory that did not exist;
\* ioutil.WriteFile fails, leaving the directory without the file, or writes it whole.
generateComposeFile(files, config) ==
  { [fs |-> files, path |-> << >>, err |-> ErrTempDir] }
  \cup UNION { UNION {
       IF res.err # Nil
       THEN { [fs |-> WithDir(files, tempDir, EmptyMap), path |-> << >>, err |-> ErrContent] }
       ELSE { [fs |-> WithDir(files, tempDir, EmptyMap), path |-> << >>, err |-> ErrWrite],
              [fs |-> WithDir(files, tempDir, [n \in {ComposeFileName} |-> res.content]),
               path |-> Join(tempDir, ComposeFileName), err |-> Nil] }
       : res \in ContentResults(config) }
     : tempDir \in TempDirs \ DOMAIN files }

\* CleanupComposeFile with os.Remove(composeFilePath) in place of os.RemoveAll(Dir).
CleanupComposeFileRemoveOnly(files, composeFilePath) ==
  LET dir == Dir(composeFilePath)
      name == composeFilePath[Len(composeFilePath)]
  IN  IF dir \in DOMAIN files /\ name \in DOMAIN files[dir]
      THEN [fs |-> [files EXCEPT ![dir] = [n \in DOMAIN files[dir] \ {name} |-> files[dir][n]]],
            err |-> Nil]
      ELSE [fs |-> files, err |-> "no such file or directory"]

\* CleanupComposeFile(composeFilePath): os.RemoveAll(filepath.Dir(composeFilePath)).
CleanupComposeFile(files, composeFilePath) == RemoveAll(files, Dir(composeFilePath))

(***************************************************************************)
(* Topologies the runs range over.                                         *)
(***************************************************************************)
PortPool ==
  <<PortMapping(8080, 80, "tcp"), PortMapping(5432, 5432, "tcp"), PortMapping(53, 53, "udp")>>

EnvPool == << <<"ENV", "production">>, <<"DEBUG", "1">>, <<"TZ", "UTC">> >>

\* The environment map holding the first n variables of EnvPool.
EnvOf(n) ==
  [k \in { EnvPool[i][1] : i \in 1..n } |-> EnvPool[CHOOSE i \in 1..n : EnvPool[i][1] = k][2]]

NoLimits == ResourceLimits("", "")

DataVolume == VolumeMapping("/host/path", "/container/path")

\* Service definitions with every optional field empty or not, independently.
WebChoices ==
  { ServiceConfig("nginx", "stable", SubSeq(PortPool, 1, np), EnvOf(ne), vols, deps, restart,
                  ResourceLimits(m, c)) :
      np \in 0..MaxPorts, ne \in 0..MaxEnv, vols \in {<< >>, <<DataVolume>>},
      deps \in {<< >>, <<"db">>}, restart \in {"", "always"}, m \in {"", "512m"},
      c \in {"", "0.5"} }

DbChoices ==
  { ServiceConfig("postgres", "13", << >>, EmptyMap, << >>, << >>, "", NoLimits),
    ServiceConfig("postgres", "13", <<PortPool[2]>>, EnvOf(MaxEnv), <<DataVolume>>, << >>,
                  "always", ResourceLimits("1g", "")) }

ServiceMaps ==
  {EmptyMap}
  \cup { [s \in {"web"} |-> w] : w \in WebChoices }
  \cup { [s \in {"web", "db"} |-> IF s = "web" THEN w ELSE d] : w \in WebChoices, d \in DbChoices }

\* The inputs of the serializer checks.
GenTopologies == { ComposeConfig(m, n, "demo", "") : m \in ServiceMaps, n \in {"", "appnet"} }

\* The end-to-end topology: project demo, service web (nginx:stable, 8080->80/tcp,
\* ENV=production) and a second service db.
DemoConfig ==
  ComposeConfig([s \in {"web", "db"} |->
                   IF s = "web"
                   THEN ServiceConfig("nginx", "stable", <<PortPool[1]>>, EnvOf(1), << >>,
                                      <<"db">>, "", NoLimits)
                   ELSE ServiceConfig("postgres", "13", << >>, EmptyMap, << >>, << >>,
                                      "always", NoLimits)],
                "appnet", "demo", "")

\* A second topology, declaring another set of services under another project.
OtherConfig ==
  ComposeConfig([s \in {"app"} |->
                   ServiceConfig("test-image", "latest", << >>, EmptyMap, << >>, << >>, "",
                                 NoLimits)],
                "", "test-project", ".env")

\* The arguments Initialize is called with.
Topologies == {DemoConfig, OtherConfig}

\* The service names callers ask about: declared ones and one never declared.
ServiceArgs == {"web", "app", "ghost"}

Threads == {"t1", "t2"}

\* The caller whose calls are observed: what each of its calls ran and returned is
\* recorded.  The other thread makes the same calls, unrecorded.
Caller == "t1"

Observed == {Caller}

\* No Start of the observed caller has returned successfully, or a call since has
\* ended the scenario.
NoScenario == [phase |-> "none", cached |-> {}]

\* No `down` has completed.
NoRace == [early |-> {}, old |-> FALSE, stopped |-> FALSE, overlapped |-> FALSE]

VARIABLES
  config,       \* p.config: the stored topology
  initialized,  \* p.initialized
  containers,   \* p.containers: service name -> container ID
  mu,           \* p.mu: [writer: the thread holding Lock or None, readers: holders of RLock]
  th,           \* per thread: the call in progress, its position and its local variables
  fs,           \* the directories under the temporary root
  gen,          \* the serializer harness: a topology and the results of two calls on it
  stg,          \* the staging harness: the last staging/cleanup call and its results
  calls,        \* the number of provider calls made so far
  scn,          \* how far the observed caller is into Initialize, Start, Stop
  race          \* what the cache and the refreshes at work hold from before a `down`

vars == <<config, initialized, containers, mu, th, fs, gen, stg, calls, scn, race>>

provider == <<config, initialized, containers, mu, th>>

(***************************************************************************)
(* NewDockerComposeProvider: the state after construction.                 *)
(***************************************************************************)
Idle ==
  [pc |-> "idle", op |-> None, serviceName |-> "", config |-> ZeroConfig,
   composeFile |-> << >>, caller |-> None, uconfig |-> ZeroConfig, todo |-> {},
   containers |-> EmptyMap, statuses |-> EmptyMap, containerID |-> << >>,
   ret |-> << >>, err |-> None, log |-> EmptyBag]

NewDockerComposeProvider ==
  /\ calls = 0
  /\ scn = NoScenario
  /\ race = NoRace
  /\ config = ZeroConfig
  /\ initialized = FALSE
  /\ containers = EmptyMap
  /\ mu = [writer |-> None, readers |-> {}]
  /\ th = [t \in Threads |-> Idle]

(***************************************************************************)
(* The external CLI.  A captured output is a sequence of pieces, white     *)
(* space kept apart; a Go string built at run time is such a sequence too, *)
(* a literal one the single piece Lit("...").  th[t].log is the bag of the *)
(* command lines the call in progress has run so far, each with the exit   *)
(* status and the combined output it returned.                             *)
(***************************************************************************)
IsSpace(piece) == piece \in {" ", "\t", "\n", "\r"}

RECURSIVE TrimLeft(_)
TrimLeft(out) == IF out # << >> /\ IsSpace(Head(out)) THEN TrimLeft(Tail(out)) ELSE out

RECURSIVE TrimRight(_)
TrimRight(out) ==
  IF out # << >> /\ IsSpace(out[Len(out)]) THEN TrimRight(SubSeq(out, 1, Len(out) - 1)) ELSE out

\* strings.TrimSpace
TrimSpace(out) == TrimRight(TrimLeft(out))

Lit(text) == <<text>>

Exit(ok, output) == [ok |-> ok, output |-> output]

\* The identifier of the container that runs a service.
IdOf(service) == "id-" \o service

\* What `docker-compose ps -q <service>` can exit with and print.
PsResults(service) ==
  { Exit(FALSE, <<"no such service", "\n">>), Exit(TRUE, <<"\n">>),
    Exit(TRUE, <<IdOf(service), "\n">>) }

\* What `docker inspect --format {{.State.Status}} <id>` can exit with and print.
InspectResults ==
  { Exit(FALSE, <<"Error: No such object", "\n">>), Exit(TRUE, <<"running", "\n">>) }

\* What `docker logs <id>` can exit with and print.
LogsResults == { Exit(FALSE, <<"Error", "\n">>), Exit(TRUE, <<"listening on :80", "\n">>) }

\* What `docker-compose up -d` and `docker-compose down` can exit with.
ComposeResults == { Exit(FALSE, <<"compose failed", "\n">>), Exit(TRUE, << >>) }

\* The log of thread t after the command line cmd ran and returned r.
Logged(t, log, cmd, r) ==
  IF t \in Observed
  THEN log (+) SetToBag({[cmd |-> cmd, ok |-> r.ok, output |-> r.output]})
  ELSE log

UpCmd(project, composeFile) ==
  <<"docker-compose", "-p", project, "-f", composeFile, "up", "-d">>

DownCmd(project, composeFile) == <<"docker-compose", "-p", project, "-f", composeFile, "down">>

PsCmd(project, service) == <<"docker-compose", "-p", project, "ps", "-q", service>>

InspectCmd(containerID) ==
  <<"docker", "inspect", "--format", "{{.State.Status}}", containerID>>

LogsCmd(containerID) == <<"docker", "logs", containerID>>

ErrNotInitialized == "provider not initialized"
ErrGenerate == "failed to generate compose file"
ErrStart == "failed to start containers"
ErrStop == "failed to stop containers"
ErrServiceNotFound == "service not found"
ErrContainerNotFound == "container for service not found"
ErrLogs == "failed to get logs"

(***************************************************************************)
(* sync.RWMutex p.mu.                                                      *)
(***************************************************************************)
CanRLock == mu.writer = None

CanLock == mu.writer = None /\ mu.readers = {}

RLock(t) == [mu EXCEPT !.readers = @ \cup {t}]

\* A release in shared mode that releases nothing.
RUnlockKept(t) == mu

RUnlock(t) == [mu EXCEPT !.readers = @ \ {t}]

Lock(t) == [mu EXCEPT !.writer = t]

Unlock(t) == [mu EXCEPT !.writer = None]

(***************************************************************************)
(* Calls.  A thread that is not inside a call may make any call; the       *)
(* result of its last call stays readable until it makes the next one.     *)
(***************************************************************************)
At(t, pc) == th[t].pc = pc

Outside(t) == th[t].pc \in {"idle", "done"}

\* Thread t's record becomes r.
Becomes(t, r) == th' = [th EXCEPT ![t] = r]

Goto(t, pc) == Becomes(t, [th[t] EXCEPT !.pc = pc])

\* Thread t enters operation op at its first statement.
Enter(t, op, pc, serviceName, c) ==
  Becomes(t, [Idle EXCEPT !.pc = pc, !.op = op, !.serviceName = serviceName, !.config = c])

\* The call of thread t returns (ret, err): its locals are gone, and an observed
\* caller keeps what it passed and got back.
Returned(t, r, ret, err) ==
  IF t \in Observed
  THEN [r EXCEPT !.pc = "done", !.ret = ret, !.err = err, !.caller = None, !.todo = {},
                 !.containers = EmptyMap]
  ELSE [Idle EXCEPT !.pc = "done"]

NoValue == << >>

unlocked == <<config, initialized, containers, fs, gen, stg>>

(***************************************************************************)
(* Initialize (part_000 lines 29-36).                                      *)
(***************************************************************************)
CallInitialize(t) ==
  /\ Outside(t)
  /\ \E c \in Topologies : Enter(t, "Initialize", "Initialize:Lock", "", c)
  /\ UNCHANGED <<config, initialized, containers, mu, fs, gen, stg>>

InitializeLock(t) ==
  /\ At(t, "Initialize:Lock")
  /\ CanLock
  /\ mu' = Lock(t)
  /\ Goto(t, "Initialize:set")
  /\ UNCHANGED unlocked

\* An Initialize that also empties the cache.
InitializeSetClearing(t) ==
  /\ At(t, "Initialize:set")
  /\ config' = th[t].config
  /\ initialized' = TRUE
  /\ containers' = EmptyMap
  /\ mu' = Unlock(t)
  /\ Becomes(t, Returned(t, th[t], NoValue, Nil))
  /\ UNCHANGED <<fs, gen, stg>>

\* Lines 33-35, and the deferred Unlock.
InitializeSet(t) ==
  /\ At(t, "Initialize:set")
  /\ config' = th[t].config
  /\ initialized' = TRUE
  /\ mu' = Unlock(t)
  /\ Becomes(t, Returned(t, th[t], NoValue, Nil))
  /\ UNCHANGED <<containers, fs, gen, stg>>

(***************************************************************************)
(* updateContainerIDs (part_000 lines 198-227), called by Start, Status    *)
(* and GetLogs; th[t].caller is the operation to return to.                *)
(***************************************************************************)
UpdateRLock(t) ==
  /\ At(t, "update:RLock")
  /\ CanRLock
  /\ mu' = RLock(t)
  /\ Goto(t, "update:copy")
  /\ UNCHANGED unlocked

\* A refresh that starts from the entries the cache holds.
UpdateCopyKeeping(t) ==
  /\ At(t, "update:copy")
  /\ mu' = RUnlock(t)
  /\ Becomes(t, [th[t] EXCEPT !.pc = "update:loop", !.uconfig = config,
                              !.todo = ServiceNames(config), !.containers = containers])
  /\ UNCHANGED unlocked

\* Lines 200-203: copy p.config, release the read lock, start from an empty map.
UpdateCopy(t) ==
  /\ At(t, "update:copy")
  /\ mu' = RUnlock(t)
  /\ Becomes(t, [th[t] EXCEPT !.pc = "update:loop", !.uconfig = config,
                              !.todo = ServiceNames(config), !.containers = EmptyMap])
  /\ UNCHANGED unlocked

\* A collection that keeps what a successful query printed, blank or not.
CollectedBlank(found, service, r) ==
  IF r.ok
  THEN [s \in DOMAIN found \cup {service} |->
          IF s = service THEN TrimSpace(r.output) ELSE found[s]]
  ELSE found

\* The containers map after the query of one service returned r.
Collected(found, service, r) ==
  IF r.ok /\ TrimSpace(r.output) # << >>
  THEN [s \in DOMAIN found \cup {service} |->
          IF s = service THEN TrimSpace(r.output) ELSE found[s]]
  ELSE found

\* A refresh that stores each identifier into the shared cache as it gets it.
UpdateQueryInPlace(t) ==
  /\ At(t, "update:loop")
  /\ \E service \in th[t].todo : \E r \in PsResults(service) :
       /\ Becomes(t, [th[t] EXCEPT
                        !.todo = @ \ {service},
                        !.log = Logged(t, @, PsCmd(th[t].uconfig.ProjectName, service), r),
                        !.containers = Collected(@, service, r)])
       /\ containers' = Collected(containers, service, r)
  /\ UNCHANGED <<config, initialized, mu, fs, gen, stg>>

\* Lines 204-220: one turn of the loop over config.Services.
UpdateQuery(t) ==
  /\ At(t, "update:loop")
  /\ \E service \in th[t].todo : \E r \in PsResults(service) :
       Becomes(t, [th[t] EXCEPT
                     !.todo = @ \ {service},
                     !.log = Logged(t, @, PsCmd(th[t].uconfig.ProjectName, service), r),
                     !.containers = Collected(@, service, r)])
  /\ UNCHANGED <<config, initialized, containers, mu, fs, gen, stg>>

\* A refresh that goes on to the replacement without taking the lock.
UpdateLockSkipped(t) ==
  /\ At(t, "update:loop")
  /\ th[t].todo = {}
  /\ Goto(t, "update:swap")
  /\ UNCHANGED <<mu, config, initialized, containers, fs, gen, stg>>

\* Line 222, once the loop is over.
UpdateLock(t) ==
  /\ At(t, "update:loop")
  /\ th[t].todo = {}
  /\ CanLock
  /\ mu' = Lock(t)
  /\ Goto(t, "update:swap")
  /\ UNCHANGED unlocked

\* Where updateContainerIDs returns to, by caller; it always returns nil.
AfterUpdate(t, r) ==
  CASE r.caller = "Start" -> Returned(t, r, NoValue, Nil)
    [] r.caller = "Status" ->
         [r EXCEPT !.pc = "Status:RLock2", !.caller = None, !.containers = EmptyMap]
    [] r.caller = "GetLogs" ->
         [r EXCEPT !.pc = "GetLogs:RLock2", !.caller = None, !.containers = EmptyMap]

UpdateSwap(t) ==
  /\ At(t, "update:swap")
  /\ containers' = th[t].containers
  /\ mu' = Unlock(t)
  /\ Becomes(t, AfterUpdate(t, th[t]))
  /\ UNCHANGED <<config, initialized, fs, gen, stg>>

(***************************************************************************)
(* Start (part_000 lines 39-63).                                           *)
(***************************************************************************)
CallStart(t) ==
  /\ Outside(t)
  /\ Enter(t, "Start", "Start:RLock", "", ZeroConfig)
  /\ UNCHANGED <<config, initialized, containers, mu, fs, gen, stg>>

StartRLock(t) ==
  /\ At(t, "Start:RLock")
  /\ CanRLock
  /\ mu' = RLock(t)
  /\ Goto(t, "Start:check")
  /\ UNCHANGED unlocked

\* A check that lets the uninitialized provider through.
CheckedUnguarded(t, r, next) == [r EXCEPT !.pc = next, !.config = config]

\* Lines 41-46 of Start, and the same lines of Stop, Status and GetLogs: fail when
\* not initialized, else copy p.config; the read lock is released either way.
Checked(t, r, next) ==
  IF ~initialized
  THEN Returned(t, r, NoValue, ErrNotInitialized)
  ELSE [r EXCEPT !.pc = next, !.config = config]

StartCheck(t) ==
  /\ At(t, "Start:check")
  /\ mu' = RUnlock(t)
  /\ Becomes(t, Checked(t, th[t], "Start:generate"))
  /\ UNCHANGED unlocked

\* Lines 48-52 of Start and 75-79 of Stop: the thread after generateComposeFile
\* returned out.
Staged(t, r, out, next) ==
  IF out.err # Nil
  THEN Returned(t, r, NoValue, ErrGenerate)
  ELSE [r EXCEPT !.pc = next, !.composeFile = out.path]

StartGenerate(t) ==
  /\ At(t, "Start:generate")
  /\ \E out \in generateComposeFile(fs, th[t].config) :
       /\ fs' = out.fs
       /\ Becomes(t, Staged(t, th[t], out, "Start:up"))
  /\ UNCHANGED <<config, initialized, containers, mu, gen, stg>>

\* A Start that goes on into updateContainerIDs whatever `up -d` exited with.
StartUpAnyway(t) ==
  /\ At(t, "Start:up")
  /\ \E r \in ComposeResults :
       Becomes(t, [th[t] EXCEPT
                     !.log = Logged(t, @, UpCmd(th[t].config.ProjectName, th[t].composeFile), r),
                     !.pc = "update:RLock", !.caller = "Start"])
  /\ UNCHANGED <<config, initialized, containers, mu, fs, gen, stg>>

\* Lines 54-62: run `up -d`; on success go on into updateContainerIDs.
StartUp(t) ==
  /\ At(t, "Start:up")
  /\ \E r \in ComposeResults :
       LET ran == [th[t] EXCEPT
                     !.log = Logged(t, @, UpCmd(th[t].config.ProjectName, th[t].composeFile), r)]
       IN  Becomes(t, IF r.ok
                      THEN [ran EXCEPT !.pc = "update:RLock", !.caller = "Start"]
                      ELSE Returned(t, ran, NoValue, ErrStart))
  /\ UNCHANGED <<config, initialized, containers, mu, fs, gen, stg>>

(***************************************************************************)
(* Stop (part_000 lines 66-93).                                            *)
(***************************************************************************)
CallStop(t) ==
  /\ Outside(t)
  /\ Enter(t, "Stop", "Stop:RLock", "", ZeroConfig)
  /\ UNCHANGED <<config, initialized, containers, mu, fs, gen, stg>>

StopRLock(t) ==
  /\ At(t, "Stop:RLock")
  /\ CanRLock
  /\ mu' = RLock(t)
  /\ Goto(t, "Stop:check")
  /\ UNCHANGED unlocked

StopCheck(t) ==
  /\ At(t, "Stop:check")
  /\ mu' = RUnlock(t)
  /\ Becomes(t, Checked(t, th[t], "Stop:generate"))
  /\ UNCHANGED unlocked

StopGenerate(t) ==
  /\ At(t, "Stop:generate")
  /\ \E out \in generateComposeFile(fs, th[t].config) :
       /\ fs' = out.fs
       /\ Becomes(t, Staged(t, th[t], out, "Stop:down"))
  /\ UNCHANGED <<config, initialized, containers, mu, gen, stg>>

\* A Stop that goes on to clear the cache whatever `down` exited with.
StopDownAnyway(t) ==
  /\ At(t, "Stop:down")
  /\ \E r \in ComposeResults :
       Becomes(t, [th[t] EXCEPT
                     !.log = Logged(t, @, DownCmd(th[t].config.ProjectName, th[t].composeFile), r),
                     !.pc = "Stop:Lock"])
  /\ UNCHANGED <<config, initialized, containers, mu, fs, gen, stg>>

\* Lines 81-86: run `down`.
StopDown(t) ==
  /\ At(t, "Stop:down")
  /\ \E r \in ComposeResults :
       LET ran == [th[t] EXCEPT
                     !.log = Logged(t, @, DownCmd(th[t].config.ProjectName, th[t].composeFile), r)]
       IN  Becomes(t, IF r.ok
                      THEN [ran EXCEPT !.pc = "Stop:Lock"]
                      ELSE Returned(t, ran, NoValue, ErrStop))
  /\ UNCHANGED <<config, initialized, containers, mu, fs, gen, stg>>

StopLock(t) ==
  /\ At(t, "Stop:Lock")
  /\ CanLock
  /\ mu' = Lock(t)
  /\ Goto(t, "Stop:clear")
  /\ UNCHANGED unlocked

\* A Stop that keeps the cache.
ClearedKept(cache) == cache

\* Line 89: the cache Stop leaves, make(map[string]string).
Cleared(cache) == EmptyMap

\* A Stop that leaves the cache as it is.
StopClearKeeping(t) ==
  /\ At(t, "Stop:clear")
  /\ mu' = Unlock(t)
  /\ Becomes(t, Returned(t, th[t], NoValue, Nil))
  /\ UNCHANGED <<config, initialized, containers, fs, gen, stg>>

\* A Stop that also marks the provider uninitialized.
StopClearResetting(t) ==
  /\ At(t, "Stop:clear")
  /\ containers' = EmptyMap
  /\ initialized' = FALSE
  /\ mu' = Unlock(t)
  /\ Becomes(t, Returned(t, th[t], NoValue, Nil))
  /\ UNCHANGED <<config, fs, gen, stg>>

\* Lines 88-92.
StopClear(t) ==
  /\ At(t, "Stop:clear")
  /\ containers' = Cleared(containers)
  /\ mu' = Unlock(t)
  /\ Becomes(t, Returned(t, th[t], NoValue, Nil))
  /\ UNCHANGED <<config, initialized, fs, gen, stg>>

(***************************************************************************)
(* Status (part_000 lines 96-133).                                         *)
(***************************************************************************)
CallStatus(t) ==
  /\ Outside(t)
  /\ Enter(t, "Status", "Status:RLock", "", ZeroConfig)
  /\ UNCHANGED <<config, initialized, containers, mu, fs, gen, stg>>

StatusRLock(t) ==
  /\ At(t, "Status:RLock")
  /\ CanRLock
  /\ mu' = RLock(t)
  /\ Goto(t, "Status:check")
  /\ UNCHANGED unlocked

StatusCheck(t) ==
  /\ At(t, "Status:check")
  /\ mu' = RUnlock(t)
  /\ Becomes(t, LET r == Checked(t, th[t], "update:RLock")
                IN  IF r.pc = "done" THEN r ELSE [r EXCEPT !.caller = "Status"])
  /\ UNCHANGED unlocked

\* Lines 110-113: the read lock is taken and held until Status returns.
StatusRLock2(t) ==
  /\ At(t, "Status:RLock2")
  /\ CanRLock
  /\ mu' = RLock(t)
  /\ Becomes(t, [th[t] EXCEPT !.pc = "Status:loop", !.todo = ServiceNames(th[t].config),
                              !.statuses = EmptyMap])
  /\ UNCHANGED unlocked

\* statuses[service] = status
Reported(statuses, service, status) ==
  [s \in DOMAIN statuses \cup {service} |-> IF s = service THEN status ELSE statuses[s]]

\* Lines 115-119: a service with no cached identifier.
StatusNotFound(t) ==
  /\ At(t, "Status:loop")
  /\ \E service \in th[t].todo :
       /\ service \notin DOMAIN containers
       /\ Becomes(t, [th[t] EXCEPT !.todo = @ \ {service},
                                   !.statuses = Reported(@, service, Lit("not_found"))])
  /\ UNCHANGED <<config, initialized, containers, mu, fs, gen, stg>>

\* A status taken from the output as printed.
InspectStatusRaw(r) == IF ~r.ok THEN Lit("error") ELSE r.output

\* The status recorded for an inspect invocation that returned r (lines 123-129).
InspectStatus(r) == IF ~r.ok THEN Lit("error") ELSE TrimSpace(r.output)

\* Lines 121-129: inspect the cached container of a service.
StatusInspect(t) ==
  /\ At(t, "Status:loop")
  /\ \E service \in th[t].todo : \E r \in InspectResults :
       /\ service \in DOMAIN containers
       /\ Becomes(t, [th[t] EXCEPT
                        !.todo = @ \ {service},
                        !.log = Logged(t, @, InspectCmd(containers[service]), r),
                        !.statuses = Reported(@, service, InspectStatus(r))])
  /\ UNCHANGED <<config, initialized, containers, mu, fs, gen, stg>>

StatusReturn(t) ==
  /\ At(t, "Status:loop")
  /\ th[t].todo = {}
  /\ mu' = RUnlock(t)
  /\ Becomes(t, Returned(t, th[t], th[t].statuses, Nil))
  /\ UNCHANGED unlocked

(***************************************************************************)
(* GetLogs (part_000 lines 136-170).                                       *)
(***************************************************************************)
CallGetLogs(t) ==
  /\ Outside(t)
  /\ \E serviceName \in ServiceArgs : Enter(t, "GetLogs", "GetLogs:RLock", serviceName, ZeroConfig)
  /\ UNCHANGED <<config, initialized, containers, mu, fs, gen, stg>>

GetLogsRLock(t) ==
  /\ At(t, "GetLogs:RLock")
  /\ CanRLock
  /\ mu' = RLock(t)
  /\ Goto(t, "GetLogs:check")
  /\ UNCHANGED unlocked

\* A GetLogs that does not look the service up in the topology.
DeclaredOrNot(t, r) == IF r.pc = "done" THEN r ELSE [r EXCEPT !.caller = "GetLogs"]

\* Lines 145-148, after the check of lines 138-143: the service must be declared.
Declared(t, r) ==
  IF r.pc = "done" THEN r
  ELSE IF r.serviceName \notin ServiceNames(r.config)
       THEN Returned(t, r, NoValue, ErrServiceNotFound)
       ELSE [r EXCEPT !.caller = "GetLogs"]

GetLogsCheck(t) ==
  /\ At(t, "GetLogs:check")
  /\ mu' = RUnlock(t)
  /\ Becomes(t, Declared(t, Checked(t, th[t], "update:RLock")))
  /\ UNCHANGED unlocked

GetLogsRLock2(t) ==
  /\ At(t, "GetLogs:RLock2")
  /\ CanRLock
  /\ mu' = RLock(t)
  /\ Goto(t, "GetLogs:read")
  /\ UNCHANGED unlocked

\* Lines 156-161: look the identifier up, release the lock, fail when it is missing.
Looked(t, r) ==
  IF r.serviceName \notin DOMAIN containers
  THEN Returned(t, r, NoValue, ErrContainerNotFound)
  ELSE [r EXCEPT !.pc = "GetLogs:logs", !.containerID = containers[r.serviceName]]

GetLogsRead(t) ==
  /\ At(t, "GetLogs:read")
  /\ mu' = RUnlock(t)
  /\ Becomes(t, Looked(t, th[t]))
  /\ UNCHANGED unlocked

\* Lines 163-169: run `docker logs` and return what it printed.
GetLogsRun(t) ==
  /\ At(t, "GetLogs:logs")
  /\ \E r \in LogsResults :
       LET ran == [th[t] EXCEPT !.log = Logged(t, @, LogsCmd(th[t].containerID), r)]
       IN  Becomes(t, IF r.ok THEN Returned(t, ran, r.output, Nil)
                      ELSE Returned(t, ran, NoValue, ErrLogs))
  /\ UNCHANGED <<config, initialized, containers, mu, fs, gen, stg>>

(***************************************************************************)
(* GetContainerID (part_000 lines 173-178).                                *)
(***************************************************************************)
CallGetContainerID(t) ==
  /\ Outside(t)
  /\ \E serviceName \in ServiceArgs :
       Enter(t, "GetContainerID", "GetContainerID:RLock", serviceName, ZeroConfig)
  /\ UNCHANGED <<config, initialized, containers, mu, fs, gen, stg>>

GetContainerIDRLock(t) ==
  /\ At(t, "GetContainerID:RLock")
  /\ CanRLock
  /\ mu' = RLock(t)
  /\ Goto(t, "GetContainerID:read")
  /\ UNCHANGED unlocked

\* A lookup that ignores the name.
LookupAny(cache, serviceName) ==
  IF DOMAIN cache = {} THEN << >> ELSE cache[CHOOSE s \in DOMAIN cache : TRUE]

\* p.containers[serviceName]: the zero value "" for a missing key.
Lookup(cache, serviceName) ==
  IF serviceName \in DOMAIN cache THEN cache[serviceName] ELSE << >>

GetContainerIDRead(t) ==
  /\ At(t, "GetContainerID:read")
  /\ mu' = RUnlock(t)
  /\ Becomes(t, Returned(t, th[t], Lookup(containers, th[t].serviceName), Nil))
  /\ UNCHANGED unlocked

(***************************************************************************)
(* GetServices (part_000 lines 181-195).                                   *)
(***************************************************************************)
CallGetServices(t) ==
  /\ Outside(t)
  /\ Enter(t, "GetServices", "GetServices:RLock", "", ZeroConfig)
  /\ UNCHANGED <<config, initialized, containers, mu, fs, gen, stg>>

GetServicesRLock(t) ==
  /\ At(t, "GetServices:RLock")
  /\ CanRLock
  /\ mu' = RLock(t)
  /\ Goto(t, "GetServices:read")
  /\ UNCHANGED unlocked

\* A GetServices that lists the keys of the cache.
ServiceListsCached == IF ~initialized THEN { << >> } ELSE Perms(DOMAIN containers)

\* The slices GetServices can return: nil when not initialized, else the keys of
\* p.config.Services in the order the map iteration visits them.
ServiceLists == IF ~initialized THEN { << >> } ELSE Perms(ServiceNames(config))

GetServicesRead(t) ==
  /\ At(t, "GetServices:read")
  /\ mu' = RUnlock(t)
  /\ \E services \in ServiceLists : Becomes(t, Returned(t, th[t], services, Nil))
  /\ UNCHANGED unlocked

(***************************************************************************)
(* The provider under concurrent callers (Spec), and under one caller      *)
(* making one call after the other (SpecSeq).                              *)
(***************************************************************************)
Init ==
  /\ NewDockerComposeProvider
  /\ fs = EmptyMap
  /\ gen = [config |-> ZeroConfig, first |-> [content |-> << >>, err |-> None],
            second |-> [content |-> << >>, err |-> None]]
  /\ stg = [last |-> None, config |-> ZeroConfig, path |-> << >>, err |-> None,
            cleaned |-> << >>, prev |-> None, prevCleaned |-> << >>]

Call(t) ==
  \/ CallInitialize(t)
  \/ CallStart(t)
  \/ CallStop(t)
  \/ CallStatus(t)
  \/ CallGetLogs(t)
  \/ CallGetContainerID(t)
  \/ CallGetServices(t)

Step(t) ==
  \/ InitializeLock(t)
  \/ InitializeSet(t)
  \/ StartRLock(t)
  \/ StartCheck(t)
  \/ StartGenerate(t)
  \/ StartUp(t)
  \/ StopRLock(t)
  \/ StopCheck(t)
  \/ StopGenerate(t)
  \/ StopDown(t)
  \/ StopLock(t)
  \/ StopClear(t)
  \/ StatusRLock(t)
  \/ StatusCheck(t)
  \/ StatusRLock2(t)
  \/ StatusNotFound(t)
  \/ StatusInspect(t)
  \/ StatusReturn(t)
  \/ GetLogsRLock(t)
  \/ GetLogsCheck(t)
  \/ GetLogsRLock2(t)
  \/ GetLogsRead(t)
  \/ GetLogsRun(t)
  \/ GetContainerIDRLock(t)
  \/ GetContainerIDRead(t)
  \/ GetServicesRLock(t)
  \/ GetServicesRead(t)
  \/ UpdateRLock(t)
  \/ UpdateCopy(t)
  \/ UpdateQuery(t)
  \/ UpdateLock(t)
  \/ UpdateSwap(t)

Next ==
  \E t \in Threads :
    \/ calls < MaxCalls /\ calls' = calls + 1 /\ Call(t) /\ UNCHANGED <<scn, race>>
    \/ Step(t) /\ UNCHANGED <<calls, scn, race>>

Spec == Init /\ [][Next]_vars

\* The scenario after a step of the single caller: a call that returns a
\* successful Start opens it, a successful Stop called next completes it, the two
\* accessors leave it as it is, and any other call ends it.
Observe(s, before, after, cache) ==
  LET out(r) == r.pc \in {"idle", "done"}
      accessor == after.op \in {"GetContainerID", "GetServices"}
  IN  CASE out(before) /\ ~out(after) ->
             IF accessor \/ (after.op = "Stop" /\ s.phase = "started") THEN s ELSE NoScenario
        [] ~out(before) /\ after.pc = "done" ->
             IF accessor THEN s
             ELSE IF after.op = "Start" /\ after.err = Nil
             THEN [phase |-> "started", cached |-> DOMAIN cache]
             ELSE IF after.op = "Stop" /\ after.err = Nil /\ s.phase = "started"
             THEN [s EXCEPT !.phase = "stopped"]
             ELSE NoScenario
        [] OTHER -> s

NextSeq ==
  /\ \/ calls < MaxSeqCalls /\ calls' = calls + 1 /\ Call(Caller)
     \/ Step(Caller) /\ UNCHANGED calls
  /\ scn' = Observe(scn, th[Caller], th'[Caller], containers')
  /\ UNCHANGED race

SpecSeq == Init /\ [][NextSeq]_vars

\* The steps in which thread t takes the lock (p.mu.RLock, p.mu.Lock).
Acquires(t) ==
  \/ InitializeLock(t)
  \/ StartRLock(t)
  \/ StopRLock(t)
  \/ StopLock(t)
  \/ StatusRLock(t)
  \/ StatusRLock2(t)
  \/ GetLogsRLock(t)
  \/ GetLogsRLock2(t)
  \/ GetContainerIDRLock(t)
  \/ GetServicesRLock(t)
  \/ UpdateRLock(t)
  \/ UpdateLock(t)

\* Every command that a call runs exits and the call goes on (weak fairness of
\* each thread's steps), and a thread that finds the lock free again and again
\* gets it (strong fairness of its acquisitions).  Callers need not call.
Fairness ==
  \A t \in Threads :
    /\ WF_vars(Step(t) /\ UNCHANGED <<calls, scn, race>>)
    /\ SF_vars(Acquires(t) /\ UNCHANGED <<calls, scn, race>>)

SpecFair == Init /\ [][Next]_vars /\ Fairness

\* No call of Initialize has been made: none has returned and none is under way.
NeverInitialized ==
  /\ ~initialized
  /\ \A t \in Threads : th[t].pc \notin {"Initialize:Lock", "Initialize:set"}

\* The calls of a program that calls Initialize at most once.
CallOnce(t) ==
  \/ NeverInitialized /\ CallInitialize(t)
  \/ CallStart(t)
  \/ CallStop(t)
  \/ CallStatus(t)
  \/ CallGetLogs(t)
  \/ CallGetContainerID(t)
  \/ CallGetServices(t)

NextOnce ==
  \E t \in Threads :
    \/ calls < MaxCalls /\ calls' = calls + 1 /\ CallOnce(t) /\ UNCHANGED <<scn, race>>
    \/ Step(t) /\ UNCHANGED <<calls, scn, race>>

SpecOnce == Init /\ [][NextOnce]_vars

\* What is known after a step about identifiers obtained before a `down`
\* completed: early, the threads whose refresh held one when a `down` completed
\* and has not replaced the cache yet; old, the cache holds one; stopped, a Stop
\* has returned successfully and no `down` has completed since; overlapped, a
\* refresh held an identifier when the last `down` completed, while the cache
\* or such a refresh still holds one.
Raced(g, before, after, cache, cacheAfter) ==
  LET downDone(t) == before[t].pc = "Stop:down" /\ after[t].pc = "Stop:Lock"
      cleared(t) == before[t].pc = "Stop:clear" /\ after[t].pc = "done"
      swapped(t) == before[t].pc = "update:swap" /\ after[t].pc # "update:swap"
      holding(t) == { u \in Threads \ {t} :
                        /\ before[u].pc \in {"update:loop", "update:swap"}
                        /\ before[u].containers # EmptyMap }
  IN  IF \E t \in Threads : downDone(t)
      THEN LET t == CHOOSE t \in Threads : downDone(t)
               early == g.early \cup holding(t)
           IN  [early |-> early, old |-> g.old \/ cache # EmptyMap, stopped |-> FALSE,
                overlapped |-> early # {}]
      ELSE IF \E t \in Threads : cleared(t)
      THEN [g EXCEPT !.old = g.old /\ cacheAfter # EmptyMap, !.stopped = TRUE]
      ELSE IF \E t \in Threads : swapped(t)
      THEN LET t == CHOOSE t \in Threads : swapped(t)
               old == t \in g.early /\ cacheAfter # EmptyMap
           IN  [g EXCEPT !.early = @ \ {t}, !.old = old,
                         !.overlapped = @ /\ (old \/ g.early # {t})]
      ELSE g

\* The calls that write the cache or run a command: Initialize, Start, Stop,
\* Status and GetLogs.
CallRace(t) ==
  \/ CallInitialize(t)
  \/ CallStart(t)
  \/ CallStop(t)
  \/ CallStatus(t)
  \/ CallGetLogs(t)

StepRace(t) ==
  \/ InitializeLock(t)
  \/ InitializeSet(t)
  \/ StartRLock(t)
  \/ StartCheck(t)
  \/ StartGenerate(t)
  \/ StartUp(t)
  \/ StopRLock(t)
  \/ StopCheck(t)
  \/ StopGenerate(t)
  \/ StopDown(t)
  \/ StopLock(t)
  \/ StopClear(t)
  \/ StatusRLock(t)
  \/ StatusCheck(t)
  \/ StatusRLock2(t)
  \/ StatusNotFound(t)
  \/ StatusInspect(t)
  \/ StatusReturn(t)
  \/ GetLogsRLock(t)
  \/ GetLogsCheck(t)
  \/ GetLogsRLock2(t)
  \/ GetLogsRead(t)
  \/ GetLogsRun(t)
  \/ UpdateRLock(t)
  \/ UpdateCopy(t)
  \/ UpdateQuery(t)
  \/ UpdateLock(t)
  \/ UpdateSwap(t)

\* Those calls under concurrent callers, with the record of what was obtained
\* before a `down`.
NextRace ==
  \E t \in Threads :
    \/ calls < MaxCalls /\ calls' = calls + 1 /\ CallRace(t) /\ UNCHANGED <<scn, race>>
    \/ /\ StepRace(t)
       /\ race' = Raced(race, th, th', containers, containers')
       /\ UNCHANGED <<calls, scn>>

SpecRace == Init /\ [][NextRace]_vars

\* No call made yet: the slot of a result before the call returns.
NoResult == [content |-> << >>, err |-> None]

GenIdle == [config |-> ZeroConfig, first |-> NoResult, second |-> NoResult]

StgIdle == [last |-> None, config |-> ZeroConfig, path |-> << >>, err |-> None,
            cleaned |-> << >>, prev |-> None, prevCleaned |-> << >>]

(***************************************************************************)
(* Serializer harness: generateComposeContent called twice on one input.   *)
(***************************************************************************)
InitContent ==
  /\ NewDockerComposeProvider
  /\ fs = EmptyMap
  /\ stg = StgIdle
  /\ gen \in { [GenIdle EXCEPT !.config = c] : c \in GenTopologies }

SerializeFirst ==
  /\ gen.first = NoResult
  /\ \E res \in ContentResults(gen.config) : gen' = [gen EXCEPT !.first = res]
  /\ UNCHANGED <<provider, fs, stg, calls, scn, race>>

SerializeSecond ==
  /\ gen.first # NoResult
  /\ gen.second = NoResult
  /\ \E res \in ContentResults(gen.config) : gen' = [gen EXCEPT !.second = res]
  /\ UNCHANGED <<provider, fs, stg, calls, scn, race>>

NextContent == SerializeFirst \/ SerializeSecond

SpecContent == InitContent /\ [][NextContent]_vars

(***************************************************************************)
(* Staging harness: a caller staging topologies and cleaning paths up.     *)
(***************************************************************************)
InitStaging ==
  /\ NewDockerComposeProvider
  /\ fs = EmptyMap
  /\ gen = GenIdle
  /\ stg = StgIdle

\* The paths a caller hands to CleanupComposeFile: any path staging can return.
CleanupArgs == { Join(d, ComposeFileName) : d \in TempDirs }

Stage ==
  /\ \E c \in Topologies : \E out \in generateComposeFile(fs, c) :
       /\ fs' = out.fs
       /\ stg' = [stg EXCEPT !.last = "stage", !.config = c, !.path = out.path,
                             !.err = out.err, !.prev = stg.last,
                             !.prevCleaned = stg.cleaned]
  /\ UNCHANGED <<provider, gen, calls, scn, race>>

Cleanup ==
  /\ \E path \in CleanupArgs :
       LET out == CleanupComposeFile(fs, path)
       IN  /\ fs' = out.fs
           /\ stg' = [stg EXCEPT !.last = "cleanup", !.cleaned = path, !.err = out.err,
                                 !.prev = stg.last, !.prevCleaned = stg.cleaned]
  /\ UNCHANGED <<provider, gen, calls, scn, race>>

NextStaging == Stage \/ Cleanup

SpecStaging == InitStaging /\ [][NextStaging]_vars

(***************************************************************************)
(* Reading a generated text back.                                          *)
(***************************************************************************)
RECURSIVE JoinStr(_)
JoinStr(pieces) == IF pieces = << >> THEN "" ELSE Head(pieces) \o JoinStr(Tail(pieces))

\* The bytes of a generated text.
Bytes(content) == JoinStr(Concat(content))

NetworkHeader == <<"\nnetworks:\n">>

\* The last line of the services section.
ServicesEnd(lines) ==
  LET at == { i \in 1..Len(lines) : lines[i] = NetworkHeader }
  IN  IF at = {} THEN Len(lines) ELSE (CHOOSE i \in at : \A j \in at : i <= j) - 1

IsServiceHeader(line) == Len(line) = 3 /\ line[1] = "  " /\ line[3] = ":\n"

HeaderLines(lines) == { i \in 3..ServicesEnd(lines) : IsServiceHeader(lines[i]) }

\* The lines of the service whose header is line i: up to the next header.
BlockAt(lines, i) ==
  LET later == { j \in HeaderLines(lines) : j > i }
      last == IF later = {} THEN ServicesEnd(lines)
              ELSE (CHOOSE j \in later : \A k \in later : j <= k) - 1
  IN  SubSeq(lines, i, last)

PartOrder == <<"image", "restart", "ports", "volumes", "environment", "depends_on", "limits">>

\* The part a line opens, by the text it starts with; "" for a line inside a part.
PartOpened(line) ==
  CASE line[1] = "    image: " -> "image"
    [] line[1] = "    restart: " -> "restart"
    [] line[1] = "    ports:\n" -> "ports"
    [] line[1] = "    volumes:\n" -> "volumes"
    [] line[1] = "    environment:\n" -> "environment"
    [] line[1] = "    depends_on:\n" -> "depends_on"
    [] line[1] = "    deploy:\n" -> "limits"
    [] OTHER -> ""

PartsOf(block) ==
  LET Opens(line) == PartOpened(line) # ""
  IN  Map(PartOpened, SelectSeq(block, Opens))

\* Whether the field behind a part is non-empty.
FieldSet(serviceConfig, part) ==
  CASE part = "image" -> TRUE
    [] part = "restart" -> serviceConfig.RestartPolicy # ""
    [] part = "ports" -> Len(serviceConfig.ExposedPorts) > 0
    [] part = "volumes" -> Len(serviceConfig.Volumes) > 0
    [] part = "environment" -> DOMAIN serviceConfig.Environment # {}
    [] part = "depends_on" -> Len(serviceConfig.DependsOn) > 0
    [] part = "limits" -> serviceConfig.Resources.Memory # "" \/ serviceConfig.Resources.CPUShare # ""

ExpectedParts(serviceConfig) ==
  LET Set(part) == FieldSet(serviceConfig, part)
  IN  SelectSeq(PartOrder, Set)

HasLine(block, start) == \E i \in 1..Len(block) : block[i][1] = start

Bare(serviceConfig) == ExpectedParts(serviceConfig) = <<"image">>

(***************************************************************************)
(* The provider contracts.                                                 *)
(***************************************************************************)
Lifecycle == {"Start", "Stop", "Status", "GetLogs"}

\* Where a call is before it has read the initialized flag, and after it returned.
Prelude ==
  {"idle", "done", "Initialize:Lock", "Initialize:set", "Start:RLock", "Start:check",
   "Stop:RLock", "Stop:check", "Status:RLock", "Status:check", "GetLogs:RLock",
   "GetLogs:check", "GetContainerID:RLock", "GetContainerID:read", "GetServices:RLock",
   "GetServices:read"}

\* C1: while the provider has not been initialized, topology, cache and file
\* system are as constructed, no call is past its check of the flag, no call
\* of the observed caller has run an external command, every Start, Stop,
\* Status and GetLogs that returned failed with "provider not initialized" and
\* no value.
C1_Uninitialized ==
  ~initialized =>
    /\ config = ZeroConfig
    /\ containers = EmptyMap
    /\ fs = EmptyMap
    /\ \A t \in Threads : th[t].pc \in Prelude /\ th[t].log = EmptyBag
    /\ th[Caller].pc = "done" /\ th[Caller].op \in Lifecycle =>
         th[Caller].err = ErrNotInitialized /\ th[Caller].ret = NoValue

\* A GetLogs on the uninitialized provider has returned while the other thread
\* is inside a call of its own.
C1_Witness ==
  /\ ~initialized
  /\ th[Caller].pc = "done"
  /\ th[Caller].op = "GetLogs"
  /\ th[Caller].err = ErrNotInitialized
  /\ \E t \in Threads \ {Caller} : th[t].pc \notin {"idle", "done"}

\* C2: with one caller, once Initialize, a successful Start and then a successful
\* Stop have returned, and until a call other than GetContainerID or GetServices
\* is made, the cache is empty and every GetContainerID that returned gave the
\* empty string.
C2_StoppedIsEmpty ==
  scn.phase = "stopped" =>
    /\ containers = EmptyMap
    /\ th[Caller].pc = "done" /\ th[Caller].op = "GetContainerID" =>
         th[Caller].ret = << >> /\ th[Caller].err = Nil

\* After the scenario, GetContainerID was asked for a service that Start had
\* cached an identifier for.
C2_Witness ==
  /\ scn.phase = "stopped"
  /\ th[Caller].pc = "done"
  /\ th[Caller].op = "GetContainerID"
  /\ th[Caller].serviceName \in scn.cached

\* The invocations of the command line cmd in a log.
Ran(log, cmd) == { e \in BagToSet(log) : e.cmd = cmd }

\* The command line cmd was invoked exactly once.
Once(log, cmd) == \E e \in Ran(log, cmd) : Ran(log, cmd) = {e} /\ CopiesIn(e, log) = 1

TheRun(log, cmd) == CHOOSE e \in Ran(log, cmd) : TRUE

\* The call queried the identifier of every declared service once, and the cache
\* holds the trimmed output of exactly the queries that exited zero with some.
Refreshed(log) ==
  /\ \A s \in ServiceNames(config) : Once(log, PsCmd(config.ProjectName, s))
  /\ DOMAIN containers \subseteq ServiceNames(config)
  /\ \A s \in ServiceNames(config) :
       LET e == TheRun(log, PsCmd(config.ProjectName, s))
       IN  IF e.ok /\ TrimSpace(e.output) # << >>
           THEN s \in DOMAIN containers /\ containers[s] = TrimSpace(e.output)
           ELSE s \notin DOMAIN containers

\* C3: with one caller, a Status on the initialized provider that returned
\* did not fail, queried every declared service and inspected exactly the
\* services in the refreshed cache, once each, and returned a map whose keys
\* are the declared services: "not_found" for a service absent from the
\* cache, "error" for one whose inspect exited non-zero, else the trimmed inspect
\* output.  Each entry depends on the invocations for its own service only.
C3_StatusMap ==
  LET r == th[Caller]
  IN  r.pc = "done" /\ r.op = "Status" /\ initialized =>
        /\ r.err = Nil
        /\ DOMAIN r.ret = ServiceNames(config)
        /\ Refreshed(r.log)
        /\ BagCardinality(r.log) =
             Cardinality(ServiceNames(config)) + Cardinality(DOMAIN containers)
        /\ \A s \in ServiceNames(config) :
             IF s \notin DOMAIN containers
             THEN r.ret[s] = <<"not_found">>
             ELSE /\ Once(r.log, InspectCmd(containers[s]))
                  /\ LET e == TheRun(r.log, InspectCmd(containers[s]))
                     IN  r.ret[s] = IF e.ok THEN TrimSpace(e.output) ELSE <<"error">>

\* Status returned "error" for a service whose inspect failed and the trimmed
\* inspect output for another one.
C3_Witness ==
  LET r == th[Caller]
  IN  /\ r.pc = "done" /\ r.op = "Status" /\ initialized
      /\ \E s1, s2 \in DOMAIN r.ret : r.ret[s1] = <<"error">> /\ r.ret[s2] = <<"running">>

\* What C4 says of a GetLogs of the single caller that returned on the
\* initialized provider.
C4_Returned ==
  LET r == th[Caller]
      n == r.serviceName
  IN  r.pc = "done" /\ r.op = "GetLogs" /\ initialized =>
        IF n \notin ServiceNames(config)
        THEN r.err = ErrServiceNotFound /\ r.ret = NoValue /\ r.log = EmptyBag
        ELSE /\ Refreshed(r.log)
             /\ IF n \notin DOMAIN containers
                THEN /\ r.err = ErrContainerNotFound /\ r.ret = NoValue
                     /\ BagCardinality(r.log) = Cardinality(ServiceNames(config))
                ELSE /\ Once(r.log, LogsCmd(containers[n]))
                     /\ BagCardinality(r.log) = Cardinality(ServiceNames(config)) + 1
                     /\ LET e == TheRun(r.log, LogsCmd(containers[n]))
                        IN  IF e.ok THEN r.err = Nil /\ r.ret = e.output
                            ELSE r.err = ErrLogs /\ r.ret = NoValue

\* A step of a GetLogs that is before its check of the service name, or that
\* returns "service not found".
C4_Undeclared ==
  LET r == th'[Caller]
  IN  /\ r # th[Caller]
      /\ r.op = "GetLogs"
      /\ \/ r.pc \in {"GetLogs:RLock", "GetLogs:check"}
         \/ r.pc = "done" /\ r.err = ErrServiceNotFound

\* C4: with one caller, a GetLogs on the initialized provider that returned
\* either was for an undeclared service, failed with "service not found" and ran
\* no external command; or refreshed the cache, found no identifier for the
\* service, failed with "container not found" and ran no log retrieval; or ran
\* log retrieval once, for the identifier just cached, and returned its output,
\* or a failure when it exited non-zero.  No step up to the return of
\* "service not found" changes the cache.
C4_GetLogs == [](C4_Returned) /\ [][C4_Undeclared => containers' = containers]_vars

\* GetLogs returned the output of log retrieval.
C4_Witness ==
  LET r == th[Caller]
  IN  /\ r.pc = "done" /\ r.op = "GetLogs" /\ initialized
      /\ r.err = Nil
      /\ r.ret = <<"listening on :80", "\n">>

\* The observed caller takes a step of a call of op.
StepOf(op) == th'[Caller] # th[Caller] /\ th'[Caller].op = op

Returns == th[Caller].pc # "done" /\ th'[Caller].pc = "done"

C8_GetContainerID ==
  [][StepOf("GetContainerID") =>
       /\ UNCHANGED <<config, initialized, containers, fs>>
       /\ th'[Caller].log = EmptyBag
       /\ Returns =>
            /\ th'[Caller].err = Nil
            /\ LET n == th'[Caller].serviceName
               IN  th'[Caller].ret = IF n \in DOMAIN containers THEN containers[n] ELSE << >>]_vars

\* GetContainerID returned a cached identifier.
C8_Witness ==
  /\ th[Caller].pc = "done" /\ th[Caller].op = "GetContainerID"
  /\ th[Caller].serviceName \in DOMAIN containers
  /\ th[Caller].ret = containers[th[Caller].serviceName]
  /\ th[Caller].ret # << >>

\* C9: among concurrent calls, no step of a GetServices changes topology, flag,
\* cache or file system or runs an external command, and the step that returns
\* gives no error and, on the initialized provider, a list of the service names
\* of the stored topology, each once, and on the uninitialized one the nil list.
C9_GetServices ==
  [][StepOf("GetServices") =>
       /\ UNCHANGED <<config, initialized, containers, fs>>
       /\ th'[Caller].log = EmptyBag
       /\ Returns =>
            /\ th'[Caller].err = Nil
            /\ LET services == th'[Caller].ret
               IN  IF initialized
                   THEN /\ { services[i] : i \in 1..Len(services) } = ServiceNames(config)
                        /\ Len(services) = Cardinality(ServiceNames(config))
                   ELSE services = << >>]_vars

\* GetServices returned the two service names of the stored topology.
C9_Witness ==
  /\ th[Caller].pc = "done" /\ th[Caller].op = "GetServices"
  /\ initialized
  /\ Len(th[Caller].ret) = 2
  /\ { th[Caller].ret[i] : i \in 1..2 } = ServiceNames(config)

\* Kinds of command line.
IsUp(cmd) == cmd[1] = "docker-compose" /\ cmd[4] = "-f" /\ cmd[6] = "up"

IsDown(cmd) == cmd[1] = "docker-compose" /\ cmd[4] = "-f" /\ cmd[6] = "down"

IsPs(cmd) == cmd[1] = "docker-compose" /\ cmd[4] = "ps"

\* The entries of a log whose command line is of a kind.
Of(log, Kind(_)) == { e \in BagToSet(log) : Kind(e.cmd) }

\* The lines a, b, c occur in this order in the text.
InOrder(lines, a, b, c) ==
  \E i, j, k \in 1..Len(lines) :
    /\ i < j /\ j < k
    /\ JoinStr(lines[i]) = a /\ JoinStr(lines[j]) = b /\ JoinStr(lines[k]) = c

\* The file at path holds a serialization of topology.
HoldsSerialization(path, topology) ==
  /\ Dir(path) \in DOMAIN fs
  /\ ComposeFileName \in DOMAIN fs[Dir(path)]
  /\ path = Join(Dir(path), ComposeFileName)
  /\ fs[Dir(path)][ComposeFileName] \in { res.content : res \in ContentResults(topology) }
  /\ topology = DemoConfig =>
       InOrder(fs[Dir(path)][ComposeFileName], "    image: nginx:stable\n",
               "      - \"8080:80/tcp\"\n", "      - ENV=production\n")

\* C11: with one caller, in every state of a Start on the initialized provider:
\* it has run nothing but `up` and identifier queries; the path it holds names
\* a file that holds a serialization of the stored topology, and it holds one
\* before `up` runs; `up` has run at most once, with the stored topology's
\* project name and that path; a query has run only if `up` exited zero; and a
\* Start that returned succeeded exactly when it staged the file and `up`
\* exited zero.
C11_StartOrder ==
  LET r == th[Caller]
      ups == Of(r.log, IsUp)
  IN  r.op = "Start" /\ initialized =>
        /\ r.pc \notin {"Start:RLock", "Start:check"} => r.config = config
        /\ \A e \in BagToSet(r.log) : IsUp(e.cmd) \/ IsPs(e.cmd)
        /\ r.composeFile # << >> => HoldsSerialization(r.composeFile, r.config)
        /\ ups # {} =>
             /\ r.composeFile # << >>
             /\ Once(r.log, UpCmd(r.config.ProjectName, r.composeFile))
             /\ ups = Ran(r.log, UpCmd(r.config.ProjectName, r.composeFile))
        /\ Of(r.log, IsPs) # {} => ups # {} /\ \A e \in ups : e.ok
        /\ r.pc \in {"update:RLock", "update:copy", "update:loop", "update:swap"} =>
             ups # {} /\ \A e \in ups : e.ok
        /\ r.pc = "done" =>
             (r.err = Nil <=> r.composeFile # << >> /\ ups # {} /\ \A e \in ups : e.ok)

\* Start returned success for the topology with web and db although an
\* identifier query failed.
C11_Witness ==
  LET r == th[Caller]
  IN  /\ r.pc = "done" /\ r.op = "Start" /\ r.err = Nil
      /\ r.config = DemoConfig
      /\ \E e \in Of(r.log, IsPs) : ~e.ok

\* What C12 says of a Start or Stop of the single caller that returned on the
\* initialized provider.
C12_Returned ==
  LET r == th[Caller]
      runs == Of(r.log, IsUp) \cup Of(r.log, IsDown)
  IN  r.pc = "done" /\ r.op \in {"Start", "Stop"} /\ initialized =>
        /\ r.composeFile = << >> <=> r.err = ErrGenerate
        /\ r.err = ErrGenerate => r.log = EmptyBag
        /\ (\E e \in runs : ~e.ok) <=> r.err \in {ErrStart, ErrStop}
        /\ r.err \in {ErrStart, ErrStop} =>
             /\ BagCardinality(r.log) = 1
             /\ r.err = ErrStart <=> r.op = "Start"
             /\ Once(r.log, IF r.op = "Start"
                            THEN UpCmd(config.ProjectName, r.composeFile)
                            ELSE DownCmd(config.ProjectName, r.composeFile))
        /\ r.err # Nil => Of(r.log, IsPs) = {}

\* A step of a Start or a Stop of the single caller.
C12_Step == th'[Caller] # th[Caller] /\ th'[Caller].op \in {"Start", "Stop"}

\* C12: with one caller, a Start or Stop on the initialized provider that
\* returned failed with "failed to generate compose file" exactly when staging
\* gave no path, and then ran no command; it failed with "failed to start
\* containers" or "failed to stop containers" exactly when `up` or `down` exited
\* non-zero, and then that one invocation is all it ran; a failed call ran no
\* identifier query.  No step of a Start or Stop changes topology or flag, and
\* the only step that changes the cache is the one that returns success, so a
\* failed call leaves all three as they were.
C12_Failures ==
  /\ [](C12_Returned)
  /\ [][C12_Step =>
          /\ config' = config /\ initialized' = initialized
          /\ containers' # containers =>
               th'[Caller].pc = "done" /\ th'[Caller].err = Nil]_vars

\* A Stop failed at `down` on a provider whose cache holds identifiers.
C12_Witness ==
  LET r == th[Caller]
  IN  /\ r.pc = "done" /\ r.op = "Stop" /\ r.err = ErrStop
      /\ containers # EmptyMap

\* The mapping a finished pass of identifier queries over the services of a
\* topology resolves to: the trimmed output of each query that exited zero
\* with some.
Resolved(log, topology) ==
  LET query(s) == TheRun(log, PsCmd(topology.ProjectName, s))
  IN  [s \in { d \in ServiceNames(topology) :
                 /\ Ran(log, PsCmd(topology.ProjectName, d)) # {}
                 /\ query(d).ok
                 /\ TrimSpace(query(d).output) # << >> } |-> TrimSpace(query(s).output)]

\* The call has come back from updateContainerIDs.
AfterRefresh(r) ==
  /\ r.op \in {"Start", "Status", "GetLogs"}
  /\ \/ r.pc \in {"Status:RLock2", "Status:loop", "GetLogs:RLock2", "GetLogs:read",
                  "GetLogs:logs"}
     \/ r.pc = "done" /\ r.err \in {Nil, ErrContainerNotFound, ErrLogs}

\* What C13 says of the states of the single caller at and after the replacement
\* of the cache.
C13_Replaced ==
  LET r == th[Caller]
  IN  /\ r.pc = "update:swap" =>
           /\ \A s \in ServiceNames(config) : Once(r.log, PsCmd(config.ProjectName, s))
           /\ r.containers = Resolved(r.log, config)
      /\ AfterRefresh(r) => containers = Resolved(r.log, config)

\* C13: with one caller, a refresh queries every declared service once; the step
\* that ends it replaces the cache by the mapping its queries resolve to, whatever
\* the cache held, and goes on in the calling operation without an error; the
\* cache is that mapping for as long as the call lasts.
C13_Refresh ==
  /\ [](C13_Replaced)
  /\ [][th[Caller].pc = "update:swap" /\ th'[Caller] # th[Caller] =>
          /\ containers' = Resolved(th[Caller].log, config)
          /\ th'[Caller].pc \in {"done", "Status:RLock2", "GetLogs:RLock2"}
          /\ th'[Caller].pc = "done" => th'[Caller].err = Nil]_vars

\* A finished pass in which the query for web failed and the one for db did not
\* is about to replace a cache that holds an identifier for web.
C13_Witness ==
  LET r == th[Caller]
  IN  /\ r.pc = "update:swap"
      /\ "web" \in DOMAIN containers
      /\ DOMAIN r.containers = {"db"}
      /\ \E e \in Of(r.log, IsPs) : ~e.ok

\* C14: among concurrent calls, a refresh reaches the replacement only after its
\* pass over the declared services is finished, and every step that changes the
\* cache is taken by the thread that holds the lock exclusively and is either
\* the replacement by the map of such a finished pass or the clearing by Stop;
\* so the cache is never a map that a refresh is still filling.
C14_AtomicSwap ==
  /\ [](\A t \in Threads : th[t].pc = "update:swap" => th[t].todo = {})
  /\ [][containers' # containers =>
          \E t \in Threads :
            /\ mu.writer = t
            /\ th'[t] # th[t]
            /\ \/ th[t].pc = "update:swap" /\ th[t].todo = {} /\ containers' = th[t].containers
               \/ th[t].pc = "Stop:clear" /\ containers' = EmptyMap]_vars

\* A refresh has an identifier in its map and services left to query while
\* another thread reads the cache, which is not that map.
C14_Witness ==
  \E t, u \in Threads :
    /\ t # u
    /\ th[t].pc = "update:loop" /\ th[t].todo # {} /\ th[t].containers # EmptyMap
    /\ th[u].pc \in {"GetContainerID:read", "Status:loop", "GetLogs:read"}
    /\ containers # th[t].containers

\* C15: among concurrent calls, the stored topology is the zero value until the
\* provider is initialized and one of the arguments of Initialize afterwards;
\* the flag never goes back to false; and every step that changes topology or
\* flag is the assignment of an Initialize, which stores its argument and sets
\* the flag: no step of another operation or of the refresh changes either.
C15_TopologyKept ==
  /\ [](IF initialized THEN config \in Topologies ELSE config = ZeroConfig)
  /\ [][/\ initialized => initialized'
        /\ config' # config \/ initialized' # initialized =>
             \E t \in Threads :
               /\ th[t].pc = "Initialize:set"
               /\ th'[t] # th[t]
               /\ config' = th[t].config
               /\ initialized']_vars

\* The observed caller's Initialize has replaced the topology while a call of
\* the other thread is at work on its copy of the topology stored before.
C15_Witness ==
  /\ th[Caller].pc = "done" /\ th[Caller].op = "Initialize"
  /\ config = th[Caller].config
  /\ \E u \in Threads \ {Caller} :
       /\ th[u].pc \in {"Start:up", "Stop:down", "update:RLock", "Status:loop"}
       /\ th[u].config \in Topologies
       /\ th[u].config # config

\* Where a call is while it holds the lock in shared mode, and in exclusive mode.
SharedPcs ==
  {"Start:check", "Stop:check", "Status:check", "GetLogs:check", "update:copy",
   "Status:loop", "GetLogs:read", "GetContainerID:read", "GetServices:read"}

ExclusivePcs == {"Initialize:set", "update:swap", "Stop:clear"}

Holds(t) == t \in mu.readers \/ mu.writer = t

\* The step takes a value of the shared state into the locals of thread t: the
\* topology, an identifier, or a status that tells whether one is cached.
Copies(t) ==
  /\ th[t].pc \notin {"idle", "done"}
  /\ \/ th'[t].config \notin {th[t].config, ZeroConfig}
     \/ th'[t].uconfig \notin {th[t].uconfig, ZeroConfig}
     \/ th'[t].containerID \notin {th[t].containerID, << >>}
     \/ th'[t].statuses \notin {th[t].statuses, EmptyMap}

\* C16: among concurrent calls, the lock is held exclusively by at most one
\* thread and then by no reader; a thread holds it in shared mode exactly where
\* the code reads the shared state and exclusively exactly where it writes it;
\* every step that changes topology, flag or cache is taken by the exclusive
\* holder, and every step that takes shared state into a call's locals by a
\* holder.
C16_LockDiscipline ==
  /\ [](/\ mu.writer # None => mu.writer \in Threads /\ mu.readers = {}
        /\ \A t \in Threads :
             /\ t \in mu.readers <=> th[t].pc \in SharedPcs
             /\ mu.writer = t <=> th[t].pc \in ExclusivePcs)
  /\ [][/\ config' # config \/ initialized' # initialized \/ containers' # containers =>
             \E t \in Threads : mu.writer = t /\ th'[t] # th[t]
        /\ \A t \in Threads : th'[t] # th[t] /\ Copies(t) => Holds(t)]_vars

\* A refresh holds the lock exclusively for its replacement while the other
\* thread waits for it in shared mode.
C16_Witness ==
  \E t, u \in Threads :
    /\ mu.writer = t /\ th[t].pc = "update:swap"
    /\ th[u].pc = "GetContainerID:RLock"

\* C17 as stated: among concurrent calls, once a Stop has returned successfully
\* the cache holds no identifier obtained before its `down` completed.
C17_NoEarlyIdentifier == race.stopped => ~race.old

\* C17, as the code has it: among concurrent calls, once a Stop has returned
\* successfully the cache holds an identifier obtained before the `down`
\* completed only if a refresh held one when the `down` completed and replaced
\* the cache after the Stop cleared it; and the step in which a Stop clears the
\* cache leaves it empty.
C17_EarlyOnlyByOverlap ==
  /\ [](race.stopped /\ race.old => race.overlapped)
  /\ [][\A t \in Threads : th[t].pc = "Stop:clear" /\ th'[t] # th[t] =>
          containers' = EmptyMap]_vars

\* A Stop has returned successfully and the cache holds an identifier that an
\* overlapping refresh had obtained before the `down` completed.
C17_Witness == race.stopped /\ race.old /\ race.overlapped /\ containers # EmptyMap

\* C18: when Initialize is called at most once, in every state among concurrent
\* calls every key of the cache is a service of the stored topology and every
\* cached identifier is non-empty, and the cache is empty while the provider is
\* uninitialized.
C18_CacheWellFormed ==
  /\ DOMAIN containers \subseteq ServiceNames(config)
  /\ \A s \in DOMAIN containers : containers[s] # << >>
  /\ ~initialized => containers = EmptyMap

\* The cache holds identifiers while another refresh, which found other
\* services, is about to replace it.
C18_Witness ==
  /\ initialized
  /\ containers # EmptyMap
  /\ \E t \in Threads :
       /\ th[t].pc = "update:swap"
       /\ th[t].containers # EmptyMap
       /\ DOMAIN th[t].containers # DOMAIN containers

\* Where a call is when its next step takes the lock.
Requests(t) ==
  \/ th[t].pc \in {"Initialize:Lock", "Start:RLock", "Stop:RLock", "Stop:Lock",
                   "Status:RLock", "Status:RLock2", "GetLogs:RLock", "GetLogs:RLock2",
                   "GetContainerID:RLock", "GetServices:RLock", "update:RLock"}
  \/ th[t].pc = "update:loop" /\ th[t].todo = {}

\* Some thread inside a call can take a step.
Progress == \E t \in Threads : Step(t) /\ UNCHANGED <<calls, scn, race>>

\* C19: with commands that exit and a fair lock, among concurrent callers every
\* call returns; a call that is about to take the lock does not hold it, a call
\* that has returned does not hold it, and whenever a call is under way some
\* call can take a step.
C19_EveryCallReturns ==
  /\ \A t \in Threads : ~Outside(t) ~> Outside(t)
  /\ [](\A t \in Threads : Requests(t) => ~Holds(t))
  /\ [](\A t \in Threads : Outside(t) => ~Holds(t))
  /\ []((\E t \in Threads : ~Outside(t)) => ENABLED Progress)

\* A Stop waits for the exclusive lock while the other thread holds the lock in
\* shared mode inside Status's loop.
C19_Witness ==
  \E t, u \in Threads :
    /\ th[t].pc = "Stop:Lock"
    /\ th[u].pc = "Status:loop"
    /\ u \in mu.readers
    /\ ~CanLock

\* C5: two calls of generateComposeContent on the same topology return
\* byte-identical text.
C5_Deterministic ==
  gen.second # NoResult => Bytes(gen.first.content) = Bytes(gen.second.content)

\* C6: every service's text lists its parts in the order image, restart, ports,
\* volumes, environment, depends_on, limits, each optional part present exactly when
\* its field is non-empty (the memory and cpus lines each exactly when set); a
\* service with no optional field is its header and image line alone; the network
\* block ends the text exactly when the network name is non-empty; no error.
\* Stated of the text a first call returned, for every topology and every order
\* of iteration; a second call on the topology draws from the same results.
C6_PartsInOrder ==
  gen.first # NoResult /\ gen.second = NoResult =>
    LET lines == gen.first.content
        n == Len(lines)
    IN  /\ gen.first.err = Nil
        /\ Cardinality(HeaderLines(lines)) = Cardinality(ServiceNames(gen.config))
        /\ { lines[i][2] : i \in HeaderLines(lines) } = ServiceNames(gen.config)
        /\ \A i \in HeaderLines(lines) :
             LET block == BlockAt(lines, i)
                 sc == gen.config.Services[lines[i][2]]
             IN  /\ PartsOf(block) = ExpectedParts(sc)
                 /\ HasLine(block, "          memory: ") <=> sc.Resources.Memory # ""
                 /\ HasLine(block, "          cpus: ") <=> sc.Resources.CPUShare # ""
                 /\ Bare(sc) => Len(block) = 2 /\ block[2][1] = "    image: "
        /\ (\E i \in 1..n : lines[i] = NetworkHeader) <=> gen.config.Network # ""
        /\ gen.config.Network # "" =>
             /\ n >= 3
             /\ lines[n - 2] = NetworkHeader
             /\ lines[n - 1] = <<"  ", gen.config.Network, ":\n">>
             /\ lines[n] = <<"    driver: bridge\n">>

\* C6 witness: a serialized topology whose service web has every optional part,
\* whose service db has none, and which names a network.
C6_Witness ==
  /\ gen.first # NoResult
  /\ gen.second = NoResult
  /\ gen.config.Network # ""
  /\ ServiceNames(gen.config) = {"web", "db"}
  /\ ExpectedParts(gen.config.Services["web"]) = PartOrder
  /\ gen.config.Services["web"].Resources.Memory # ""
  /\ gen.config.Services["web"].Resources.CPUShare # ""
  /\ Bare(gen.config.Services["db"])

\* C10: CleanupComposeFile returns no error and removes the directory of its path
\* with all it holds, touching nothing else; applied to a directory that does not
\* exist, or a second time to the same path, it leaves the file system as it was.
C10_CleanupIdempotent ==
  [][stg'.last = "cleanup" =>
       LET dir == Dir(stg'.cleaned)
       IN  /\ stg'.err = Nil
           /\ \A q \in DOMAIN fs' : ~IsPrefix(dir, q)
           /\ \A q \in DOMAIN fs : ~IsPrefix(dir, q) => q \in DOMAIN fs' /\ fs'[q] = fs[q]
           /\ DOMAIN fs' \subseteq DOMAIN fs
           /\ dir \notin DOMAIN fs => fs' = fs
           /\ (stg.last = "cleanup" /\ stg.cleaned = stg'.cleaned) => fs' = fs]_vars

\* C10 witness: the path staging returned has been cleaned up twice in a row, after
\* staging had written the definition file into its directory.
C10_Witness ==
  /\ stg.last = "cleanup"
  /\ stg.prev = "cleanup"
  /\ stg.cleaned = stg.prevCleaned
  /\ stg.path # << >>
  /\ stg.cleaned = stg.path
  /\ Dir(stg.path) \notin DOMAIN fs

====
